---- MODULE Spec2Model ----
(***************************************************************************)
(* Streaming chat client: SSE frame parser (client.parseStreamData), the   *)
(* stream worker (client.ChatStream / readStream), the bridge goroutine    *)
(* and display loop of the TUI (ui.Model) and the conversation history     *)
(* (chat.ChatHistory).                                                     *)
(*                                                                         *)
(* Text is modelled as a sequence of symbols.  The wire alphabet is        *)
(*   "NL"      the line feed                                               *)
(*   "SP"      a blank                                                     *)
(*   "data:"   the first five bytes of the "data: " prefix                 *)
(*   ":"       the comment marker                                          *)
(*   "[DO" "NE]"  the two halves of the sentinel [DONE]                    *)
(*   "{" "}"   the braces of a JSON envelope                               *)
(*   "d:x"     the field choices[0].delta.content   = x                    *)
(*   "m:x"     the field choices[0].message.content = x                    *)
(*   "f:x"     the field choices[0].finish_reason   = x                    *)
(*   "junk"    any other bytes                                             *)
(***************************************************************************)
EXTENDS Integers, Sequences, FiniteSets, TLC

\* ------------------------------------------------------------------ bounds
MaxLines == 2
MaxReq == 2
MaxReqLive == 1
MaxReqRestart == 3
MaxReadsRestart == 0
MaxReads == 2
MaxInput == 1
MaxFields == 3
MaxHist == 3
MaxSnap == 2
NumG == 2
MaxOps == 2

\* ------------------------------------------------------- program constants
ChanCap == 64
StatusIdle == 0
StatusSending == 1
StatusStreaming == 2
StatusError == 3

RoleSystem == "system"
RoleUser == "user"
RoleAssistant == "assistant"

\* ----------------------------------------------------------- text helpers
Last(s) == s[Len(s)]
Front(s) == SubSeq(s, 1, Len(s) - 1)

IsSpace(c) == c \in {"SP", "CR"}

RECURSIVE TrimLeft(_)
TrimLeft(s) == IF s # <<>> /\ IsSpace(Head(s)) THEN TrimLeft(Tail(s)) ELSE s

RECURSIVE TrimRight(_)
TrimRight(s) == IF s # <<>> /\ IsSpace(Last(s)) THEN TrimRight(Front(s)) ELSE s

TrimSpace(s) == TrimRight(TrimLeft(s))

HasPrefix(s, p) == Len(s) >= Len(p) /\ SubSeq(s, 1, Len(p)) = p

TrimPrefix(s, p) == IF HasPrefix(s, p) THEN SubSeq(s, Len(p) + 1, Len(s)) ELSE s

\* bytes.Split(data, "\n"): the pieces between line feeds, the last one being
\* whatever follows the last line feed (possibly empty).
RECURSIVE SplitLines(_, _)
SplitLines(data, cur) ==
    IF data = <<>> THEN <<cur>>
    ELSE IF Head(data) = "NL" THEN <<cur>> \o SplitLines(Tail(data), <<>>)
    ELSE SplitLines(Tail(data), Append(cur, Head(data)))

\* ------------------------------------------------------------ JSON decode
DeltaText(sym) ==
    CASE sym = "d:a" -> <<"a">>
      [] sym = "d:b" -> <<"b">>
      [] OTHER -> <<>>

MessageText(sym) ==
    CASE sym = "m:A" -> <<"A">>
      [] OTHER -> <<>>

FinishText(sym) ==
    CASE sym = "f:stop" -> "stop"
      [] sym = "f:null" -> "null"
      [] OTHER -> ""

DeltaSyms == {"d:a", "d:b", "d:"}
MessageSyms == {"m:A", "m:"}
FinishSyms == {"f:stop", "f:null", "f:", "f:nil"}
FieldSyms == DeltaSyms \cup MessageSyms \cup FinishSyms

\* The value of the last field of one kind in an object body (encoding/json
\* keeps the last duplicate), "" when the field is absent.
RECURSIVE LastField(_, _)
LastField(body, kinds) ==
    IF body = <<>> THEN ""
    ELSE IF Last(body) \in kinds THEN Last(body)
    ELSE LastField(Front(body), kinds)

\* json.Unmarshal(jsonData, &resp) for a ChatResponse: fails unless the payload
\* is one complete object; absent and null fields keep their zero value.
Unmarshal(payload) ==
    LET wellFormed == /\ Len(payload) >= 2
                      /\ Head(payload) = "{"
                      /\ Last(payload) = "}"
                      /\ \A i \in 2..(Len(payload) - 1) : payload[i] \in FieldSyms
        body == SubSeq(payload, 2, Len(payload) - 1)
    IN  IF ~wellFormed
        THEN [ok |-> FALSE, choices |-> 0, delta |-> <<>>, message |-> <<>>, finish |-> ""]
        ELSE [ok |-> TRUE,
              choices |-> IF body = <<>> THEN 0 ELSE 1,
              delta |-> DeltaText(LastField(body, DeltaSyms)),
              message |-> MessageText(LastField(body, MessageSyms)),
              finish |-> FinishText(LastField(body, FinishSyms))]

\* ------------------------------------------------------------ StreamChunk
ContentChunk(c) == [Content |-> c, Done |-> FALSE, Error |-> ""]
DoneChunk == [Content |-> <<>>, Done |-> TRUE, Error |-> ""]
ErrorChunk(e) == [Content |-> <<>>, Done |-> FALSE, Error |-> e]

DataPrefix == <<"data:", "SP">>
DoneLiteral == <<"[DO", "NE]">>

\* resp.Choices[0].FinishReason != "" && resp.Choices[0].FinishReason != "null"
FinishedUnlessEmpty(reason) == reason # ""

Finished(reason) == reason # "" /\ reason # "null"

\* "if err := json.Unmarshal(jsonData, &resp); err != nil { continue }"
OnUnmarshalErrorFail(payload) ==
    [chunks |-> <<ErrorChunk("UNMARSHAL_ERROR")>>, stop |-> TRUE]

OnUnmarshalError(payload) == [chunks |-> <<>>, stop |-> FALSE]

\* The choice of the content with the full message looked at first.
ChoiceContentMessageFirst(delta, message) ==
    IF message = <<>> THEN delta ELSE message

\* "content := resp.Choices[0].Delta.Content; if content == "" { content =
\* resp.Choices[0].Message.Content }"
ChoiceContent(delta, message) == IF delta = <<>> THEN message ELSE delta

\* A skipped line that ends the loop.
OnSkippedLineStop(line) == [chunks |-> <<>>, stop |-> TRUE]

\* The "continue" of an empty line, of a comment and of a line without the
\* "data: " prefix.
OnSkippedLine(line) == [chunks |-> <<>>, stop |-> FALSE]

\* The chunks one line contributes, and whether the loop returns after it.
ParseLine(raw) ==
    LET line == TrimSpace(raw)
        jsonData == TrimPrefix(line, DataPrefix)
        env == Unmarshal(jsonData)
        content == ChoiceContent(env.delta, env.message)
    IN  IF Len(line) = 0 THEN OnSkippedLine(line)
        ELSE IF HasPrefix(line, <<":">>) THEN OnSkippedLine(line)
        ELSE IF ~HasPrefix(line, DataPrefix) THEN OnSkippedLine(line)
        ELSE IF jsonData = DoneLiteral THEN [chunks |-> <<DoneChunk>>, stop |-> TRUE]
        ELSE IF ~env.ok THEN OnUnmarshalError(jsonData)
        ELSE IF env.choices = 0 THEN [chunks |-> <<>>, stop |-> FALSE]
        ELSE [chunks |-> (IF content # <<>> THEN <<ContentChunk(content)>> ELSE <<>>)
                         \o (IF Finished(env.finish) THEN <<DoneChunk>> ELSE <<>>),
              stop |-> FALSE]

\* "for _, line := range lines", left by the return after [DONE].
RECURSIVE ParseLinesNoStop(_)
ParseLinesNoStop(lines) ==
    IF lines = <<>> THEN <<>>
    ELSE ParseLine(Head(lines)).chunks \o ParseLinesNoStop(Tail(lines))

RECURSIVE ParseLines(_)
ParseLines(lines) ==
    IF lines = <<>> THEN <<>>
    ELSE LET r == ParseLine(Head(lines))
         IN  IF r.stop THEN r.chunks ELSE r.chunks \o ParseLines(Tail(lines))

parseStreamData(data) == ParseLines(SplitLines(data, <<>>))

\* The text a list of chunks carries, in order.
RECURSIVE ConcatContent(_)
ConcatContent(chunks) ==
    IF chunks = <<>> THEN <<>>
    ELSE Head(chunks).Content \o ConcatContent(Tail(chunks))

\* ------------------------------------------------------------ ChatHistory
NewChatHistory(systemPrompt) ==
    [messages |-> IF systemPrompt # <<>>
                  THEN <<[Role |-> RoleSystem, Content |-> systemPrompt]>>
                  ELSE <<>>,
     systemPrompt |-> systemPrompt]

\* AddUser that puts the message in front.
AddUserInFront(h, content) ==
    [h EXCEPT !.messages = <<[Role |-> RoleUser, Content |-> content]>> \o @]

AddUser(h, content) ==
    [h EXCEPT !.messages = Append(@, [Role |-> RoleUser, Content |-> content])]

AddAssistant(h, content) ==
    [h EXCEPT !.messages = Append(@, [Role |-> RoleAssistant, Content |-> content])]

\* UpdateLastAssistant without the test of the last message's role.
UpdateLastAssistantAnyRole(h, content) ==
    IF Len(h.messages) > 0
    THEN [ok |-> TRUE, h |-> [h EXCEPT !.messages[Len(h.messages)].Content = content]]
    ELSE [ok |-> FALSE, h |-> h]

\* The history after UpdateLastAssistant(content) and the value it returns.
UpdateLastAssistant(h, content) ==
    IF Len(h.messages) > 0 /\ h.messages[Len(h.messages)].Role = RoleAssistant
    THEN [ok |-> TRUE, h |-> [h EXCEPT !.messages[Len(h.messages)].Content = content]]
    ELSE [ok |-> FALSE, h |-> h]

\* A []Message held by a caller: the array it points into, "messages" for the
\* array of h.messages and "copy" for an array of its own, and for the latter
\* the elements.
NoSlice == [arr |-> "none", elems |-> <<>>]

\* "return h.messages"
GetMessagesAlias(h) == [arr |-> "messages", elems |-> <<>>]

\* "result := make([]Message, len(h.messages)); copy(result, h.messages)"
GetMessages(h) == [arr |-> "copy", elems |-> h.messages]

\* The elements a caller reads through a slice.
Elems(slice, h) == IF slice.arr = "messages" THEN h.messages ELSE slice.elems

\* "slice[i].Content = content" done by the holder of a slice: the slice and
\* the history afterwards.
WriteElem(slice, h, i, content) ==
    IF slice.arr = "messages"
    THEN [slice |-> slice, h |-> [h EXCEPT !.messages[i].Content = content]]
    ELSE [slice |-> [slice EXCEPT !.elems[i].Content = content], h |-> h]

\* GetDisplayMessages without the test of the role.
GetDisplayMessagesUnfiltered(h) == h.messages

\* "for _, msg := range h.messages { if msg.Role != RoleSystem { append } }"
RECURSIVE DisplayLoop(_, _, _)
DisplayLoop(msgs, i, result) ==
    IF i > Len(msgs) THEN result
    ELSE DisplayLoop(msgs, i + 1,
                     IF msgs[i].Role # RoleSystem THEN Append(result, msgs[i])
                     ELSE result)

GetDisplayMessages(h) == DisplayLoop(h.messages, 1, <<>>)

\* RemoveLast that only refuses on an empty history.
RemoveLastUnlessEmpty(h) ==
    IF Len(h.messages) = 0
    THEN [ok |-> FALSE, h |-> h]
    ELSE [ok |-> TRUE, h |-> [h EXCEPT !.messages = Front(@)]]

\* The history after RemoveLast() and the value it returns.
RemoveLast(h) ==
    IF Len(h.messages) <= 1
    THEN [ok |-> FALSE, h |-> h]
    ELSE [ok |-> TRUE, h |-> [h EXCEPT !.messages = Front(@)]]

\* Clear that replaces the prompt and keeps the messages.
ClearPromptOnly(h, systemPrompt) == [h EXCEPT !.systemPrompt = systemPrompt]

Clear(h, systemPrompt) == NewChatHistory(systemPrompt)

GetSystemPrompt(h) == h.systemPrompt

\* SetSystemPrompt without the test for a system message already in front.
SetSystemPromptInsertOnly(h, prompt) ==
    IF prompt # <<>>
    THEN [messages |-> <<[Role |-> RoleSystem, Content |-> prompt]>> \o h.messages,
          systemPrompt |-> prompt]
    ELSE [h EXCEPT !.systemPrompt = prompt]

\* SetSystemPrompt that leaves a system message already in front as it is.
SetSystemPromptNoUpdate(h, prompt) ==
    IF Len(h.messages) > 0 /\ h.messages[1].Role = RoleSystem
    THEN [h EXCEPT !.systemPrompt = prompt]
    ELSE IF prompt # <<>>
    THEN [messages |-> <<[Role |-> RoleSystem, Content |-> prompt]>> \o h.messages,
          systemPrompt |-> prompt]
    ELSE [h EXCEPT !.systemPrompt = prompt]

SetSystemPrompt(h, prompt) ==
    IF Len(h.messages) > 0 /\ h.messages[1].Role = RoleSystem
    THEN [messages |-> [h.messages EXCEPT ![1].Content = prompt],
          systemPrompt |-> prompt]
    ELSE IF prompt # <<>>
    THEN [messages |-> <<[Role |-> RoleSystem, Content |-> prompt]>> \o h.messages,
          systemPrompt |-> prompt]
    ELSE [h EXCEPT !.systemPrompt = prompt]

\* ------------------------------------------------------------------ state
VARIABLES pWhole, pRest, pFrames, pLast, pCalls

pvars == <<pWhole, pRest, pFrames, pLast, pCalls>>

\* A single call of an operation on its own: the operation, its arguments and
\* what it returned.
VARIABLES fOp, fArg, fRes

fvars == <<fOp, fArg, fRes>>

\* A caller of the history: the slice the last GetMessages returned to it and
\* the elements the caller last saw or wrote there.
VARIABLES snap, snapAt

\* Goroutines calling the methods of one history concurrently.
VARIABLES
    procs,        \* [G -> the goroutine's call: position, locals, results]
    mu,           \* h.mu: the goroutine holding it for writing (0: none) and
                  \* the goroutines holding it for reading
    appended,     \* the messages the returned AddUser/AddAssistant calls added
    updated       \* an UpdateLastAssistant has changed a message

gvars == <<procs, mu, appended, updated>>
hvars == <<snap, snapAt, gvars>>

G == 1..NumG

VARIABLES
    \* --- client.ChatStream / readStream, one stream worker per request
    cancelled,    \* [Req -> BOOLEAN]  the request's ctx is Done
    peer,         \* [Req -> {"open", "eof"}]  has the server ended the body
    respStatus,   \* [Req -> Int]  resp.StatusCode, 0 before a response
    ch,           \* [Req -> Seq]  buffer of the channel ChatStream returns
    chClosed,     \* [Req -> Nat]  how often close(ch) was executed
    chPanic,      \* a send on, or a close of, a closed channel happened
    wpc,          \* [Req -> worker position]
    wReads,       \* [Req -> Nat]  reads that returned bytes
    wSawCancel,   \* [Req -> BOOLEAN]  the select took the ctx.Done() case
    sent,         \* [Req -> Seq]  every value sent on ch, in order
    \* --- ui.Model.startStreaming: bridge goroutine and streamMsgChan
    bpc,          \* [Req -> bridge position]
    bsrc,         \* [Req -> 0..MaxReq]  the channel the bridge ranges over
    mch,          \* [Req -> Seq]  buffer of streamMsgChan
    mchClosed,    \* [Req -> BOOLEAN]
    msent,        \* [Req -> Seq]  every value sent on streamMsgChan, in order
    \* --- Bubble Tea runtime: readStreamMsg commands
    readers,      \* [Req -> Nat]  commands blocked on streamMsgChan
    inflight,     \* messages received by a command, not yet given to Update
    \* --- ui.Model
    nreq,         \* requests started; m.cancel, m.streamChan, m.streamMsgChan
    status, errorMsg, streamingBuf, input, history, quit,
    \* --- observation
    recv,         \* [Req -> Seq]  stream messages Update handled, by producer
    lastEv        \* the last message Update handled

cvars == <<cancelled, peer, respStatus, ch, chClosed, chPanic, wpc, wReads,
           wSawCancel, sent>>
bvars == <<bpc, bsrc, mch, mchClosed, msent>>
rvars == <<readers, inflight>>
uvars == <<nreq, status, errorMsg, streamingBuf, input, history, quit>>
ovars == <<recv, lastEv>>
mvars == <<cvars, bvars, rvars, uvars, ovars>>
vars == <<mvars, pvars, fvars, hvars>>

\* The requests of a session, in the order sendMessage starts them.
MaxSession == IF MaxReq > MaxReqRestart THEN MaxReq ELSE MaxReqRestart

Req == 1..MaxSession

HttpStatusOK == 200

SystemPrompts == {<<"S">>}
InputChars == {"h"}

\* What one Read of the response body can deliver.
ReadData ==
    { <<"data:", "SP", "{", "d:a", "}", "NL">>,
      <<"data:", "SP", "{", "d:b", "}", "NL", "NL", "data:", "SP", "[DO", "NE]", "NL">>,
      <<"data:", "SP", "{", "d:a", "f:stop", "}", "NL", "data:", "SP", "{", "d:b", "}", "NL">> }

NoEvent == [kind |-> "none", req |-> 0, late |-> FALSE, err |-> ""]

MainInit ==
    /\ cancelled = [r \in Req |-> FALSE]
    /\ peer = [r \in Req |-> "open"]
    /\ respStatus = [r \in Req |-> 0]
    /\ ch = [r \in Req |-> <<>>]
    /\ chClosed = [r \in Req |-> 0]
    /\ chPanic = FALSE
    /\ wpc = [r \in Req |-> "none"]
    /\ wReads = [r \in Req |-> 0]
    /\ wSawCancel = [r \in Req |-> FALSE]
    /\ sent = [r \in Req |-> <<>>]
    /\ bpc = [r \in Req |-> "none"]
    /\ bsrc = [r \in Req |-> 0]
    /\ mch = [r \in Req |-> <<>>]
    /\ mchClosed = [r \in Req |-> FALSE]
    /\ msent = [r \in Req |-> <<>>]
    /\ readers = [r \in Req |-> 0]
    /\ inflight = {}
    /\ nreq = 0
    /\ status = StatusIdle
    /\ errorMsg = ""
    /\ streamingBuf = <<>>
    /\ input = <<>>
    /\ quit = FALSE
    /\ recv = [r \in Req |-> <<>>]
    /\ lastEv = NoEvent

NoCall ==
    /\ fOp = "none"
    /\ fArg = <<>>
    /\ fRes = <<>>

IdleProc ==
    [pc |-> "idle", op |-> "none", arg |-> <<>>, loc |-> <<>>, n |-> 0, k |-> 0,
     res |-> <<>>, at |-> <<>>, last |-> "none", prev |-> <<>>, cur |-> <<>>,
     gets |-> 0, left |-> MaxOps]

NoCaller ==
    /\ snap = NoSlice
    /\ snapAt = <<>>
    /\ procs = [g \in G |-> IdleProc]
    /\ mu = [w |-> 0, r |-> {}]
    /\ appended = {}
    /\ updated = FALSE

ParseIdle ==
    /\ pWhole = <<>>
    /\ pRest = <<>>
    /\ pFrames = <<>>
    /\ pLast = <<>>
    /\ pCalls = 0

\* NewModel
Init ==
    /\ MainInit
    /\ NoCaller
    /\ history \in {NewChatHistory(sp) : sp \in SystemPrompts}
    /\ ParseIdle
    /\ NoCall

RECURSIVE SumTo(_, _)
SumTo(f, n) == IF n = 0 THEN 0 ELSE f[n] + SumTo(f, n - 1)

\* Reads of the session that returned bytes.
TotalReads == SumTo(wReads, MaxSession)

\* ------------------------------------------------- the client's channel
\* The value as it travels: the chunk, the request whose worker sent it, its
\* position among that worker's sends and whether the request's context was
\* already cancelled when it was sent.
Tagged(r, c, i) ==
    [Content |-> c.Content, Done |-> c.Done, Error |-> c.Error,
     req |-> r, idx |-> Len(sent[r]) + i, late |-> cancelled[r]]

\* ch <- each of chunks, in order, then close(ch) when closing.
ChanOps(r, chunks, closing) ==
    /\ Len(ch[r]) + Len(chunks) <= ChanCap
    /\ ch' = [ch EXCEPT ![r] = @ \o [i \in 1..Len(chunks) |-> Tagged(r, chunks[i], i)]]
    /\ sent' = [sent EXCEPT ![r] = @ \o [i \in 1..Len(chunks) |-> Tagged(r, chunks[i], i)]]
    /\ chClosed' = [chClosed EXCEPT ![r] = IF closing THEN @ + 1 ELSE @]
    /\ chPanic' = (chPanic \/ (chClosed[r] > 0 /\ (chunks # <<>> \/ closing)))

\* ------------------------------------------------- ChatStream, readStream
\* The ways ChatStream can go before it has a response, and the error it
\* reports for each.
EarlyError(outcome) ==
    CASE outcome = "marshal" -> "MARSHAL_ERROR"
      [] outcome = "request" -> "REQUEST_ERROR"
      [] outcome = "transport" -> "REQUEST_FAILED"
      [] OTHER -> ""

\* ChatStream starts the reading goroutine only when none of its early
\* returns was taken.
SpawnsWorkerAlways(outcome) == TRUE

SpawnsWorker(outcome) == EarlyError(outcome) = ""

\* The body of a response whose status is not 200.
ResponseBody == "denied"

\* handleErrorResponse: the API_ERROR with the status code in its message and
\* context and the body in its context.
handleErrorResponse(code, body) ==
    "API_ERROR status " \o ToString(code) \o " body " \o body

\* What the goroutine sends for a response whose status is not 200.
ErrorResponseSendsBody(code) ==
    <<ContentChunk(<<ResponseBody>>), ErrorChunk(handleErrorResponse(code, ResponseBody))>>

ErrorResponseSends(code) ==
    <<ErrorChunk(handleErrorResponse(code, ResponseBody))>>

\* The goroutine of ChatStream up to the call of readStream.
WorkerStart(r) ==
    /\ ~quit
    /\ wpc[r] = "start"
    /\ IF respStatus[r] # HttpStatusOK
       THEN /\ ChanOps(r, ErrorResponseSends(respStatus[r]), TRUE)
            /\ wpc' = [wpc EXCEPT ![r] = "returned"]
       ELSE /\ wpc' = [wpc EXCEPT ![r] = "select"]
            /\ UNCHANGED <<ch, sent, chClosed, chPanic>>
    /\ UNCHANGED <<cancelled, peer, respStatus, wReads, wSawCancel>>
    /\ UNCHANGED <<bvars, rvars, uvars, ovars, pvars, fvars, hvars>>

\* select { case <-ctx.Done(): ... default: }
CtxDoneNever(r) == FALSE

CtxDone(r) == cancelled[r]

WorkerSelect(r) ==
    /\ ~quit
    /\ wpc[r] = "select"
    /\ IF CtxDone(r)
       THEN /\ ChanOps(r, <<DoneChunk>>, TRUE)
            /\ wpc' = [wpc EXCEPT ![r] = "returned"]
            /\ wSawCancel' = [wSawCancel EXCEPT ![r] = TRUE]
       ELSE /\ wpc' = [wpc EXCEPT ![r] = "read"]
            /\ UNCHANGED <<ch, sent, chClosed, chPanic, wSawCancel>>
    /\ UNCHANGED <<cancelled, peer, respStatus, wReads>>
    /\ UNCHANGED <<bvars, rvars, uvars, ovars, pvars, fvars, hvars>>

\* The server ends the body.  A cancelled request's connection is torn down,
\* so a clean end is seen only if it came first; it is seen by the next Read,
\* so it is taken while the worker waits in Read.
PeerEnd(r) ==
    /\ ~quit
    /\ wpc[r] = "read"
    /\ peer[r] = "open"
    /\ ~cancelled[r]
    /\ peer' = [peer EXCEPT ![r] = "eof"]
    /\ UNCHANGED <<cancelled, respStatus, ch, chClosed, chPanic, wpc, wReads,
                   wSawCancel, sent>>
    /\ UNCHANGED <<bvars, rvars, uvars, ovars, pvars, fvars, hvars>>

\* The chunk loop sends a Done chunk, an Error chunk and a chunk with content.
IsSent(chunk) == chunk.Done \/ chunk.Error # "" \/ chunk.Content # <<>>

\* readStream returns right after it has sent a Done or an Error chunk.
ReturnsAfterErrorOnly(chunk) == chunk.Error # ""

ReturnsAfter(chunk) == chunk.Done \/ chunk.Error # ""

\* "for _, chunk := range chunks": the chunks the loop sends, in order, up to
\* and including the first one after which readStream returns.
RECURSIVE LoopSends(_)
LoopSends(chunks) ==
    IF chunks = <<>> THEN <<>>
    ELSE (IF IsSent(Head(chunks)) THEN <<Head(chunks)>> ELSE <<>>)
         \o (IF ReturnsAfter(Head(chunks)) THEN <<>> ELSE LoopSends(Tail(chunks)))

LoopReturns(chunks) == \E i \in 1..Len(chunks) : ReturnsAfter(chunks[i])

\* What follows the loop: "if err != nil { if err != io.EOF { ch <- Error } return }".
AfterLoopSendsNothing(err) == <<>>

AfterLoopSends(err) ==
    IF err # "nil" /\ err # "EOF" THEN <<ErrorChunk("READ_ERROR")>> ELSE <<>>

\* What one pass of readStream's loop sends when Read returned data and err,
\* and whether readStream returns in that pass.
ReadPassSendsErrAlways(data, err) ==
    LET chunks == IF data # <<>> THEN parseStreamData(data) ELSE <<>>
    IN  LoopSends(chunks) \o AfterLoopSends(err)

\* A pass that reports the outcome of the Read before it forwards the frames.
ReadPassSendsOutcomeFirst(data, err) ==
    LET chunks == IF data # <<>> THEN parseStreamData(data) ELSE <<>>
    IN  AfterLoopSends(err) \o LoopSends(chunks)

ReadPassSends(data, err) ==
    LET chunks == IF data # <<>> THEN parseStreamData(data) ELSE <<>>
    IN  LoopSends(chunks) \o (IF LoopReturns(chunks) THEN <<>> ELSE AfterLoopSends(err))

ReadPassReturns(data, err) ==
    LET chunks == IF data # <<>> THEN parseStreamData(data) ELSE <<>>
    IN  LoopReturns(chunks) \/ err # "nil"

\* One pass of readStream's loop after the select: n, err := reader.Read(buf),
\* parseStreamData(buf[:n]) when n > 0, the sends of the chunk loop and the
\* handling of err.  The sends of one pass go to a buffered channel this
\* goroutine alone writes, and the pass reads no shared state after Read.
WorkerRead(r) ==
    /\ ~quit
    /\ wpc[r] = "read"
    /\ \E data \in ReadData \cup {<<>>}, err \in {"nil", "EOF", "err"} :
          /\ data = <<>> => err # "nil"
          /\ data # <<>> => TotalReads < MaxReads
          /\ err = "EOF" => peer[r] = "eof"
          /\ ChanOps(r, ReadPassSends(data, err), ReadPassReturns(data, err))
          /\ wpc' = [wpc EXCEPT ![r] =
                        IF ReadPassReturns(data, err) THEN "returned" ELSE "select"]
          /\ wReads' = [wReads EXCEPT ![r] = IF data # <<>> THEN @ + 1 ELSE @]
    /\ UNCHANGED <<cancelled, peer, respStatus, wSawCancel>>
    /\ UNCHANGED <<bvars, rvars, uvars, ovars, pvars, fvars, hvars>>

\* ------------------------------------------------- startStreaming's bridge
StreamMsg(chunk) ==
    [Content |-> chunk.Content, Done |-> chunk.Done, Err |-> chunk.Error,
     req |-> chunk.req, idx |-> chunk.idx, late |-> chunk.late]

\* The goroutine evaluates "range m.streamChan" when it starts to run; it is
\* not ordered with a later startStreaming's write of m.streamChan, so it may
\* see the channel of any request started since.
BridgeStart(r) ==
    /\ ~quit
    /\ bpc[r] = "spawned"
    /\ \E c \in r..nreq : bsrc' = [bsrc EXCEPT ![r] = c]
    /\ bpc' = [bpc EXCEPT ![r] = "running"]
    /\ UNCHANGED <<mch, mchClosed, msent>>
    /\ UNCHANGED <<cvars, rvars, uvars, ovars, pvars, fvars, hvars>>

\* The bridge closes streamMsgChan and returns after forwarding this chunk.
BridgeCloses(chunk) == chunk.Done \/ chunk.Error # ""

\* One iteration of "for chunk := range m.streamChan".
BridgeStep(r) ==
    /\ ~quit
    /\ bpc[r] = "running"
    /\ LET c == bsrc[r]
       IN  IF ch[c] # <<>>
           THEN LET chunk == Head(ch[c])
                IN  /\ ch' = [ch EXCEPT ![c] = Tail(@)]
                    /\ IF BridgeCloses(chunk) \/ chunk.Content # <<>>
                       THEN /\ Len(mch[r]) < ChanCap
                            /\ mch' = [mch EXCEPT ![r] = Append(@, StreamMsg(chunk))]
                            /\ msent' = [msent EXCEPT ![r] = Append(@, StreamMsg(chunk))]
                       ELSE UNCHANGED <<mch, msent>>
                    /\ mchClosed' = [mchClosed EXCEPT ![r] = @ \/ BridgeCloses(chunk)]
                    /\ bpc' = [bpc EXCEPT ![r] = IF BridgeCloses(chunk) THEN "exited" ELSE @]
           ELSE /\ chClosed[c] > 0
                /\ bpc' = [bpc EXCEPT ![r] = "exited"]
                /\ UNCHANGED <<ch, mch, mchClosed, msent>>
    /\ UNCHANGED bsrc
    /\ UNCHANGED <<cancelled, peer, respStatus, chClosed, chPanic, wpc, wReads,
                   wSawCancel, sent>>
    /\ UNCHANGED <<rvars, uvars, ovars, pvars, fvars, hvars>>

\* ------------------------------------------------- readStreamMsg commands
\* msg, ok := <-ch; a nil message (closed channel) is dropped by the runtime.
ReaderRecv(c) ==
    /\ ~quit
    /\ readers[c] > 0
    /\ IF mch[c] # <<>>
       THEN /\ inflight' = inflight \cup {Head(mch[c])}
            /\ mch' = [mch EXCEPT ![c] = Tail(@)]
       ELSE /\ mchClosed[c]
            /\ UNCHANGED <<inflight, mch>>
    /\ readers' = [readers EXCEPT ![c] = @ - 1]
    /\ UNCHANGED <<bpc, bsrc, mchClosed, msent>>
    /\ UNCHANGED <<cvars, uvars, ovars, pvars, fvars, hvars>>

\* ------------------------------------------------- Model.Update
Observe(msg) ==
    /\ recv' = [recv EXCEPT ![msg.req] = Append(@, msg)]
    /\ lastEv' = [kind |-> IF msg.Err # "" THEN "Err" ELSE IF msg.Done THEN "Done" ELSE "Token",
                  req |-> msg.req, late |-> msg.late, err |-> msg.Err]

\* handleStreamMsg
HandleStreamMsg(msg) ==
    /\ ~quit
    /\ msg \in inflight
    /\ inflight' = inflight \ {msg}
    /\ Observe(msg)
    /\ IF msg.Err # ""
       THEN /\ status' = StatusError
            /\ errorMsg' = msg.Err
            /\ UNCHANGED <<streamingBuf, history, readers>>
       ELSE IF msg.Done
       THEN /\ status' = StatusIdle
            /\ history' = AddAssistant(history, streamingBuf)
            /\ streamingBuf' = <<>>
            /\ UNCHANGED <<errorMsg, readers>>
       ELSE /\ streamingBuf' = streamingBuf \o msg.Content
            /\ history' = UpdateLastAssistant(history, streamingBuf').h
            /\ readers' = [readers EXCEPT ![nreq] = @ + 1]
            /\ UNCHANGED <<status, errorMsg>>
    /\ UNCHANGED <<nreq, input, quit>>
    /\ UNCHANGED <<cvars, bvars, pvars, fvars, hvars>>

\* Update, case StreamMsg: any message a readStreamMsg command delivers
UpdateStreamMsg == \E msg \in inflight : HandleStreamMsg(msg)

\* A stop key that quits the program in every status, cancelling on the way.
KeyCtrlCAlwaysQuits ==
    /\ ~quit
    /\ quit' = TRUE
    /\ IF status = StatusStreaming
       THEN /\ cancelled' = [cancelled EXCEPT ![nreq] = TRUE]
            /\ status' = StatusIdle
            /\ streamingBuf' = <<>>
       ELSE UNCHANGED <<cancelled, status, streamingBuf>>
    /\ UNCHANGED <<nreq, errorMsg, input, history>>
    /\ UNCHANGED <<peer, respStatus, ch, chClosed, chPanic, wpc, wReads, wSawCancel, sent>>
    /\ UNCHANGED <<bvars, rvars, ovars, pvars, fvars, hvars>>

\* handleKeyPress, "ctrl+c" / "ctrl+d"
KeyCtrlC ==
    /\ ~quit
    /\ IF status = StatusStreaming
       THEN /\ cancelled' = [cancelled EXCEPT ![nreq] = TRUE]
            /\ status' = StatusIdle
            /\ streamingBuf' = <<>>
            /\ UNCHANGED quit
       ELSE /\ quit' = TRUE
            /\ UNCHANGED <<cancelled, status, streamingBuf>>
    /\ UNCHANGED <<nreq, errorMsg, input, history>>
    /\ UNCHANGED <<peer, respStatus, ch, chClosed, chPanic, wpc, wReads, wSawCancel, sent>>
    /\ UNCHANGED <<bvars, rvars, ovars, pvars, fvars, hvars>>

\* Text input that is accepted in every status, also while streaming.
KeyCharAnyStatus(c) ==
    /\ ~quit
    /\ IF Len(input) < MaxInput
       THEN input' = Append(input, c)
       ELSE UNCHANGED input
    /\ UNCHANGED <<nreq, status, errorMsg, streamingBuf, history, quit>>
    /\ UNCHANGED <<cvars, bvars, rvars, ovars, pvars, fvars, hvars>>

\* handleKeyPress, default: text input
KeyChar(c) ==
    /\ ~quit
    /\ IF status # StatusStreaming /\ Len(input) < MaxInput
       THEN input' = Append(input, c)
       ELSE UNCHANGED input
    /\ UNCHANGED <<nreq, status, errorMsg, streamingBuf, history, quit>>
    /\ UNCHANGED <<cvars, bvars, rvars, ovars, pvars, fvars, hvars>>

\* sendMessage, with the startStreaming and ChatStream calls it makes
SendMessage(outcome, code) ==
    LET r == nreq + 1
    IN  /\ r \in Req
        /\ history' = AddUser(history, input)
        /\ input' = <<>>
        /\ errorMsg' = ""
        /\ nreq' = r
        /\ IF EarlyError(outcome) # ""
           THEN ChanOps(r, <<ErrorChunk(EarlyError(outcome))>>, TRUE)
           ELSE UNCHANGED <<ch, sent, chClosed, chPanic>>
        /\ IF SpawnsWorker(outcome)
           THEN /\ wpc' = [wpc EXCEPT ![r] = "start"]
                /\ respStatus' = [respStatus EXCEPT ![r] = code]
           ELSE UNCHANGED <<wpc, respStatus>>
        /\ status' = StatusStreaming
        /\ bpc' = [bpc EXCEPT ![r] = "spawned"]
        /\ readers' = [readers EXCEPT ![r] = @ + 1]
        /\ UNCHANGED <<cancelled, peer, wReads, wSawCancel>>
        /\ UNCHANGED <<bsrc, mch, mchClosed, msent>>
        /\ UNCHANGED <<inflight, streamingBuf, quit>>
        /\ UNCHANGED <<ovars, pvars, fvars, hvars>>

\* handleKeyPress, "enter", in a session of at most limit requests
KeyEnterWithin(limit) ==
    /\ ~quit
    /\ IF input = <<>>
       THEN UNCHANGED vars
       ELSE /\ nreq < limit
            /\ \E outcome \in {"marshal", "request", "transport", "response"},
                  code \in {HttpStatusOK, 401} :
                  /\ outcome # "response" => code = HttpStatusOK
                  /\ SendMessage(outcome, code)

KeyEnter == KeyEnterWithin(MaxReq)

Next ==
    \/ \E r \in Req : WorkerStart(r)
    \/ \E r \in Req : WorkerSelect(r)
    \/ \E r \in Req : PeerEnd(r)
    \/ \E r \in Req : WorkerRead(r)
    \/ \E r \in Req : BridgeStart(r)
    \/ \E r \in Req : BridgeStep(r)
    \/ \E r \in Req : ReaderRecv(r)
    \/ UpdateStreamMsg
    \/ KeyCtrlC
    \/ \E c \in InputChars : KeyChar(c)
    \/ KeyEnter

Spec == Init /\ [][Next]_vars

\* The goroutine ChatStream starts is scheduled while it can run, and a Read
\* pending on a cancelled request returns: the transport unblocks it.
WorkerFair(r) ==
    /\ WF_vars(WorkerStart(r))
    /\ WF_vars(WorkerSelect(r))
    /\ WF_vars(cancelled[r] /\ WorkerRead(r))

\* The session of MaxReqLive requests, with the scheduling above.
KeyEnterLive == KeyEnterWithin(MaxReqLive)

NextLive ==
    \/ \E r \in Req : WorkerStart(r)
    \/ \E r \in Req : WorkerSelect(r)
    \/ \E r \in Req : PeerEnd(r)
    \/ \E r \in Req : WorkerRead(r)
    \/ \E r \in Req : BridgeStart(r)
    \/ \E r \in Req : BridgeStep(r)
    \/ \E r \in Req : ReaderRecv(r)
    \/ UpdateStreamMsg
    \/ KeyCtrlC
    \/ \E c \in InputChars : KeyChar(c)
    \/ KeyEnterLive

LiveSpec == Init /\ [][NextLive]_vars /\ \A r \in Req : WorkerFair(r)

\* The session of MaxReqRestart requests against a server that answers every
\* request with 200 and sends at most MaxReadsRestart chunks of data, with
\* each bridge goroutine started before the next request and the program left
\* running.
Calm ==
    /\ ~quit
    /\ \A r \in Req : r <= nreq => (wpc[r] # "none" /\ respStatus[r] = HttpStatusOK)
    /\ \A r \in Req : bsrc[r] \in {0, r}
    /\ \A r \in Req : (r < nreq) => bpc[r] # "spawned"
    /\ TotalReads <= MaxReadsRestart

WorkerReadRestart(r) == WorkerRead(r) /\ Calm'

BridgeStartRestart(r) == BridgeStart(r) /\ Calm'

KeyCtrlCRestart == KeyCtrlC /\ Calm'

KeyEnterRestart == KeyEnterWithin(MaxReqRestart) /\ Calm'

NextRestart ==
    \/ \E r \in Req : WorkerStart(r)
    \/ \E r \in Req : WorkerSelect(r)
    \/ \E r \in Req : PeerEnd(r)
    \/ \E r \in Req : WorkerReadRestart(r)
    \/ \E r \in Req : BridgeStartRestart(r)
    \/ \E r \in Req : BridgeStep(r)
    \/ \E r \in Req : ReaderRecv(r)
    \/ UpdateStreamMsg
    \/ KeyCtrlCRestart
    \/ \E c \in InputChars : KeyChar(c)
    \/ KeyEnterRestart

RestartSpec == Init /\ [][NextRestart]_vars

\* ------------------------------------------------- parser-level inputs
SampleLines ==
    { <<"data:", "SP", "{", "d:a", "}">>,
      <<"data:", "SP", "{", "d:b", "f:stop", "}">>,
      <<"data:", "SP", "{", "m:A", "f:null", "}">>,
      <<"data:", "SP", "{", "d:a", "m:A", "}">>,
      <<"data:", "SP", "[DO", "NE]">>,
      <<"data:", "SP", "{", "junk">>,
      <<":", "junk">>,
      <<"junk", "data:", "SP", "[DO", "NE]">>,
      <<>> }

RECURSIVE StreamsOf(_)
StreamsOf(n) ==
    IF n = 0 THEN {<<>>}
    ELSE LET shorter == StreamsOf(n - 1)
         IN  shorter \cup {s \o l \o <<"NL">> : s \in shorter, l \in SampleLines}

InitParse ==
    /\ MainInit
    /\ NoCaller
    /\ NoCall
    /\ history = NewChatHistory(<<>>)
    /\ pWhole \in StreamsOf(MaxLines)
    /\ pRest = pWhole
    /\ pFrames = <<>>
    /\ pLast = <<>>
    /\ pCalls = 0

\* One Read of n bytes followed by parseStreamData(buf[:n]).
FeedChunk(n) ==
    /\ n \in 1..Len(pRest)
    /\ pLast' = parseStreamData(SubSeq(pRest, 1, n))
    /\ pFrames' = pFrames \o pLast'
    /\ pRest' = SubSeq(pRest, n + 1, Len(pRest))
    /\ pCalls' = pCalls + 1
    /\ UNCHANGED pWhole
    /\ UNCHANGED <<mvars, fvars, hvars>>

NextParse == \E n \in 1..Len(pRest) : FeedChunk(n)

SpecParse == InitParse /\ [][NextParse]_vars

\* ------------------------------------------- one pass of readStream alone
\* What a Read can return besides its bytes.
ReadResults == {"nil", "EOF", "err"}

InitPass ==
    /\ MainInit
    /\ NoCaller
    /\ history = NewChatHistory(<<>>)
    /\ ParseIdle
    /\ fOp = "none"
    /\ fArg \in {[data |-> d, err |-> e] : d \in StreamsOf(MaxLines), e \in ReadResults}
    /\ fArg.data = <<>> => fArg.err # "nil"
    /\ fRes = <<>>

\* n, err := reader.Read(buf) has returned fArg; the rest of the pass.
ReadPass ==
    /\ fOp = "none"
    /\ fOp' = "readStream"
    /\ fRes' = [sends |-> ReadPassSends(fArg.data, fArg.err),
                returns |-> ReadPassReturns(fArg.data, fArg.err)]
    /\ UNCHANGED <<fArg, mvars, pvars, hvars>>

NextPass == ReadPass

PassSpec == InitPass /\ [][NextPass]_vars

\* ------------------------------------- parseStreamData on one data line
\* The object bodies of up to n fields.
RECURSIVE BodiesOf(_)
BodiesOf(n) ==
    IF n = 0 THEN {<<>>}
    ELSE LET shorter == BodiesOf(n - 1)
         IN  shorter \cup {Append(b, f) : b \in shorter, f \in FieldSyms}

EnvelopeLine(body) == DataPrefix \o <<"{">> \o body \o <<"}">>

InitLine ==
    /\ MainInit
    /\ NoCaller
    /\ history = NewChatHistory(<<>>)
    /\ ParseIdle
    /\ fOp = "none"
    /\ fArg \in BodiesOf(MaxFields)
    /\ fRes = <<>>

\* parseStreamData of the buffer holding the envelope with body fArg as its
\* one line.
ParseEnvelope ==
    /\ fOp = "none"
    /\ fOp' = "parseStreamData"
    /\ fRes' = parseStreamData(EnvelopeLine(fArg) \o <<"NL">>)
    /\ UNCHANGED <<fArg, mvars, pvars, hvars>>

NextLine == ParseEnvelope

LineSpec == InitLine /\ [][NextLine]_vars

\* ------------------------------------------- chat.ChatHistory on its own
\* Contents and system prompts of the calls; <<>> is the empty string.
HistContents == {<<>>, <<"x">>, <<"y">>}
HistPrompts == {<<>>, <<"S">>, <<"T">>}

\* Everything but the history and the record of the last call.
hframe == <<cvars, bvars, rvars, ovars, nreq, status, errorMsg, streamingBuf,
            input, quit, pvars>>

InitHist ==
    /\ MainInit
    /\ NoCaller
    /\ history \in {NewChatHistory(sp) : sp \in HistPrompts}
    /\ ParseIdle
    /\ NoCall

\* One call on the history: fOp names the method, fArg keeps the history
\* before the call and the argument, fRes the value returned (TRUE for the
\* methods returning nothing).
Called(arg, after, res) ==
    /\ fArg' = [h |-> history, arg |-> arg]
    /\ fRes' = res
    /\ history' = after
    /\ UNCHANGED <<hframe, hvars>>

CallAddUser ==
    /\ Len(history.messages) < MaxHist
    /\ fOp' = "AddUser"
    /\ \E c \in HistContents : Called(c, AddUser(history, c), TRUE)

CallAddAssistant ==
    /\ Len(history.messages) < MaxHist
    /\ fOp' = "AddAssistant"
    /\ \E c \in HistContents : Called(c, AddAssistant(history, c), TRUE)

CallUpdateLastAssistant ==
    /\ fOp' = "UpdateLastAssistant"
    /\ \E c \in HistContents :
           LET r == UpdateLastAssistant(history, c)
           IN  Called(c, r.h, r.ok)

CallRemoveLast ==
    /\ fOp' = "RemoveLast"
    /\ LET r == RemoveLast(history)
       IN  Called(<<>>, r.h, r.ok)

CallClear ==
    /\ fOp' = "Clear"
    /\ \E p \in HistPrompts : Called(p, Clear(history, p), TRUE)

CallSetSystemPrompt ==
    /\ fOp' = "SetSystemPrompt"
    /\ \E p \in HistPrompts :
           /\ Len(SetSystemPrompt(history, p).messages) <= MaxHist
           /\ Called(p, SetSystemPrompt(history, p), TRUE)

NextHist ==
    \/ CallAddUser
    \/ CallAddAssistant
    \/ CallUpdateLastAssistant
    \/ CallRemoveLast
    \/ CallClear
    \/ CallSetSystemPrompt

HistSpec == InitHist /\ [][NextHist]_vars

\* ------------------------------------------ the history and its display
CallGetDisplayMessages ==
    /\ fOp' = "GetDisplayMessages"
    /\ Called(<<>>, history, GetDisplayMessages(history))

NextView ==
    \/ NextHist
    \/ CallGetDisplayMessages

ViewSpec == InitHist /\ [][NextView]_vars

\* --------------------------------- a caller holding a GetMessages result
\* What the caller writes into an element of the slice it got.
Modified == <<"m">>

CallGetMessages ==
    /\ Len(history.messages) <= MaxSnap
    /\ fOp' = "GetMessages"
    /\ fArg' = [h |-> history, arg |-> <<>>]
    /\ fRes' = TRUE
    /\ snap' = GetMessages(history)
    /\ snapAt' = Elems(snap', history)
    /\ UNCHANGED <<history, hframe, gvars>>

\* "messages[i].Content = ..." on the slice GetMessages returned.
WriteSnapshot ==
    /\ snap # NoSlice
    /\ fOp' = "WriteSnapshot"
    /\ fArg' = [h |-> history, arg |-> Modified]
    /\ fRes' = TRUE
    /\ \E i \in 1..Len(Elems(snap, history)) :
           LET w == WriteElem(snap, history, i, Modified)
           IN  /\ snap' = w.slice
               /\ history' = w.h
               /\ snapAt' = [j \in 1..Len(snapAt) |->
                                IF j = i THEN [snapAt[j] EXCEPT !.Content = Modified]
                                ELSE snapAt[j]]
    /\ UNCHANGED <<hframe, gvars>>

NextSnap ==
    \/ NextHist
    \/ CallGetMessages
    \/ WriteSnapshot

SnapSpec == InitHist /\ [][NextSnap]_vars

\* ------------------------------------ goroutines sharing one ChatHistory
\* sync.RWMutex: Lock waits until nobody holds the mutex.
CanLockAlways(m) == TRUE

CanLock(m) == m.w = 0 /\ m.r = {}

\* RLock waits until no writer holds the mutex.
CanRLockAlways(m) == TRUE

CanRLock(m) == m.w = 0

Writers == {"AddUser", "AddAssistant", "UpdateLastAssistant"}
Readers == {"GetMessages", "GetDisplayMessages"}
ConcOps == Writers \cup Readers

\* The content goroutine g passes in the call it makes with `left` calls to go.
ContentOf(g, left) == <<ToString(g), ToString(left)>>

NewMsg(p) ==
    [Role |-> IF p.op = "AddUser" THEN RoleUser ELSE RoleAssistant,
     Content |-> p.arg]

\* The zero Message of a slice element that was never written.
ZeroMessage == [Role |-> "", Content |-> <<>>]

ElemAt(msgs, i) == IF i <= Len(msgs) THEN msgs[i] ELSE ZeroMessage

DisplayOf(msgs) == SelectSeq(msgs, LAMBDA m : m.Role # RoleSystem)

gframe == <<hframe, fvars, snap, snapAt>>

InitConc ==
    /\ MainInit
    /\ NoCaller
    /\ history \in {NewChatHistory(sp) : sp \in {<<>>, <<"S">>}}
    /\ ParseIdle
    /\ NoCall

\* A goroutine calls a method.
GoCall(g) ==
    /\ procs[g].pc = "idle"
    /\ procs[g].left > 0
    /\ \E op \in ConcOps :
           procs' = [procs EXCEPT ![g].pc = "lock", ![g].op = op,
                                  ![g].arg = ContentOf(g, procs[g].left),
                                  ![g].left = @ - 1]
    /\ UNCHANGED <<history, mu, appended, updated, gframe>>

\* h.mu.Lock() of the writing methods.
GoLock(g) ==
    /\ procs[g].pc = "lock"
    /\ procs[g].op \in Writers
    /\ CanLock(mu)
    /\ mu' = [mu EXCEPT !.w = g]
    /\ procs' = [procs EXCEPT ![g].pc = IF procs[g].op = "UpdateLastAssistant"
                                        THEN "update" ELSE "load",
                              ![g].at = history.messages]
    /\ UNCHANGED <<history, appended, updated, gframe>>

\* h.mu.RLock() of the reading methods.
GoRLock(g) ==
    /\ procs[g].pc = "lock"
    /\ procs[g].op \in Readers
    /\ CanRLock(mu)
    /\ mu' = [mu EXCEPT !.r = @ \cup {g}]
    /\ procs' = [procs EXCEPT ![g].pc = "begin", ![g].at = history.messages]
    /\ UNCHANGED <<history, appended, updated, gframe>>

\* "h.messages = append(h.messages, Message{...})": the operand is read ...
GoLoad(g) ==
    /\ procs[g].pc = "load"
    /\ procs' = [procs EXCEPT ![g].pc = "store", ![g].loc = history.messages]
    /\ UNCHANGED <<history, mu, appended, updated, gframe>>

\* ... and the extended slice is assigned.
GoStore(g) ==
    /\ procs[g].pc = "store"
    /\ history' = [history EXCEPT
                       !.messages = Append(procs[g].loc, NewMsg(procs[g]))]
    /\ appended' = appended \cup {NewMsg(procs[g])}
    /\ procs' = [procs EXCEPT ![g].pc = "unlock"]
    /\ UNCHANGED <<mu, updated, gframe>>

\* The body of UpdateLastAssistant.
GoUpdate(g) ==
    /\ procs[g].pc = "update"
    /\ LET r == UpdateLastAssistant(history, procs[g].arg)
       IN  /\ history' = r.h
           /\ updated' = (updated \/ r.ok)
    /\ procs' = [procs EXCEPT ![g].pc = "unlock"]
    /\ UNCHANGED <<mu, appended, gframe>>

\* "make([]Message, len(h.messages))" and the evaluation of the range
\* expression: the length is read once.
GoBegin(g) ==
    /\ procs[g].pc = "begin"
    /\ procs' = [procs EXCEPT ![g].n = Len(history.messages), ![g].k = 0,
                              ![g].res = <<>>,
                              ![g].pc = IF Len(history.messages) = 0
                                        THEN "unlock" ELSE "elem"]
    /\ UNCHANGED <<history, mu, appended, updated, gframe>>

\* One element of copy(result, h.messages), or one iteration of the range
\* loop of GetDisplayMessages.
GoElem(g) ==
    /\ procs[g].pc = "elem"
    /\ LET p == procs[g]
           e == ElemAt(history.messages, p.k + 1)
           keep == p.op = "GetMessages" \/ e.Role # RoleSystem
       IN  procs' = [procs EXCEPT
                        ![g].res = IF keep THEN Append(p.res, e) ELSE p.res,
                        ![g].k = p.k + 1,
                        ![g].pc = IF p.k + 1 = p.n THEN "unlock" ELSE "elem"]
    /\ UNCHANGED <<history, mu, appended, updated, gframe>>

\* The deferred Unlock or RUnlock and the return; the goroutine keeps what
\* the call returned, and of GetMessages also what the call before returned.
GoReturn(g) ==
    /\ procs[g].pc = "unlock"
    /\ mu' = IF procs[g].op \in Writers
             THEN [mu EXCEPT !.w = 0]
             ELSE [mu EXCEPT !.r = @ \ {g}]
    /\ LET p == procs[g]
       IN  procs' = [procs EXCEPT
                        ![g].pc = "idle",
                        ![g].last = p.op,
                        ![g].loc = <<>>, ![g].n = 0, ![g].k = 0,
                        ![g].prev = IF p.op = "GetMessages" THEN p.cur ELSE p.prev,
                        ![g].cur = IF p.op = "GetMessages" THEN p.res ELSE p.cur,
                        ![g].gets = IF p.op = "GetMessages" THEN p.gets + 1
                                    ELSE p.gets]
    /\ UNCHANGED <<history, appended, updated, gframe>>

NextConc ==
    \E g \in G :
        \/ GoCall(g)
        \/ GoLock(g)
        \/ GoRLock(g)
        \/ GoLoad(g)
        \/ GoStore(g)
        \/ GoUpdate(g)
        \/ GoBegin(g)
        \/ GoElem(g)
        \/ GoReturn(g)

ConcSpec == InitConc /\ [][NextConc]_vars

\* The steps of a call that is under way. The scheduler runs every runnable
\* goroutine, and a goroutine waiting for the mutex gets it once it is free
\* often enough (sync.Mutex hands over to a starving waiter).
GoStep(g) ==
    \/ GoLock(g)
    \/ GoRLock(g)
    \/ GoLoad(g)
    \/ GoStore(g)
    \/ GoUpdate(g)
    \/ GoBegin(g)
    \/ GoElem(g)
    \/ GoReturn(g)

ConcLiveSpec == ConcSpec /\ \A g \in G : SF_vars(GoStep(g))

\* C1: whatever the cut points, the text emitted over the successive chunks
\* equals the text emitted when the whole stream is parsed in one call.
SplitInvariance ==
    pRest = <<>> => ConcatContent(pFrames) = ConcatContent(parseStreamData(pWhole))

\* ------------------------------------------------- observations on a run
IsTerminalChunk(c) == c.Done \/ c.Error # ""
IsTerminalMsg(m) == m.Done \/ m.Err # ""

HasTerminal(log) == \E i \in 1..Len(log) : log[i].Done \/ log[i].Error # ""
HasDoneMsg(log) == \E i \in 1..Len(log) : log[i].Done

\* The worker of request r has ended (or none was started) and nothing it sent
\* is still on its way to Update.
Drained(r) ==
    /\ r <= nreq
    /\ wpc[r] \in {"none", "returned"}
    /\ ch[r] = <<>>
    /\ \A c \in Req : \A i \in 1..Len(mch[c]) : mch[c][i].req # r
    /\ \A m \in inflight : m.req # r

\* The text of the tokens of request r that Update has handled.
ReceivedText(r) == ConcatContent(recv[r])

LastMessage == history.messages[Len(history.messages)]

\* C2: Update receives the events of a request in the order its worker sent
\* them: the k-th message handled for request r is the k-th value sent on the
\* request's channel (none overtakes, repeats or is skipped).
OrderPreserved ==
    \A r \in Req : \A i \in 1..Len(recv[r]) : recv[r][i].idx = i

\* C3: on the client channel and on streamMsgChan a Done or Error value is the
\* last value sent and the channel is closed after it; no content follows it.
TerminalIsLast ==
    \A r \in Req :
        /\ \A i \in 1..Len(sent[r]) :
              IsTerminalChunk(sent[r][i]) => (i = Len(sent[r]) /\ chClosed[r] >= 1)
        /\ \A i \in 1..Len(msent[r]) :
              IsTerminalMsg(msent[r][i]) => (i = Len(msent[r]) /\ mchClosed[r])

\* C3 witness: a worker parsed "a, finish_reason" followed by a content line in
\* one read, sent a and Done, and the bridge forwarded both.
TerminalIsLastWitness ==
    \E r \in Req :
        /\ ~cancelled[r] /\ wpc[r] = "returned" /\ wReads[r] = 1
        /\ Len(sent[r]) = 2 /\ sent[r][1].Content = <<"a">> /\ sent[r][2].Done
        /\ Len(msent[r]) = 2 /\ msent[r][2].Done

\* C4: the channel ChatStream returns is closed exactly once on every path, and
\* nothing is sent on it, and it is not closed again, once it is closed.
ClosedExactlyOnce ==
    /\ ~chPanic
    /\ \A r \in Req :
          /\ chClosed[r] <= 1
          /\ (r <= nreq /\ wpc[r] \in {"none", "returned"}) => chClosed[r] = 1
          /\ (r > nreq \/ wpc[r] \in {"start", "select", "read"}) => chClosed[r] = 0

\* C4 witness: one request ended by an early return of ChatStream and another
\* one by its worker, both channels closed.
ClosedExactlyOnceWitness ==
    \E r1, r2 \in Req :
        /\ r1 <= nreq /\ wpc[r1] = "none" /\ chClosed[r1] = 1
        /\ wpc[r2] = "returned" /\ chClosed[r2] = 1 /\ wReads[r2] >= 1

\* C7: a Read is issued only right after a check that found the context not
\* cancelled; a check that finds it cancelled sends exactly one Done chunk and
\* returns without reading; a worker that has returned reads and sends no more.
CancelCheckedBeforeRead ==
    [][\A r \in Req :
          /\ (wpc[r] # "read" /\ wpc'[r] = "read") => (wpc[r] = "select" /\ ~cancelled[r])
          /\ (wpc[r] = "select" /\ cancelled[r] /\ wpc'[r] # "select") =>
                /\ wpc'[r] = "returned"
                /\ Len(sent'[r]) = Len(sent[r]) + 1
                /\ sent'[r][Len(sent'[r])].Done
                /\ wReads'[r] = wReads[r]
          /\ wpc[r] = "returned" =>
                (wpc'[r] = "returned" /\ sent'[r] = sent[r] /\ wReads'[r] = wReads[r])
      ]_vars

\* C7 witness: after a first read, a check saw the cancellation and the worker
\* returned with Done as its last send.
CancelCheckedWitness ==
    \E r \in Req :
        /\ wSawCancel[r] /\ wpc[r] = "returned" /\ wReads[r] >= 1
        /\ sent[r][Len(sent[r])].Done

\* C5: once a request is cancelled while its stream is open, its worker
\* eventually has sent a Done or Error chunk, closed the channel and returned
\* (unless the program quits first).
CancelTerminates ==
    \A r \in Req :
        (cancelled[r] /\ peer[r] = "open" /\ wpc[r] \in {"start", "select", "read"})
            ~> ((wpc[r] = "returned" /\ chClosed[r] = 1 /\ HasTerminal(sent[r])) \/ quit)

\* C5 witness: the Read pending when the request was cancelled returned an
\* error; the worker sent the Error chunk, closed the channel and returned.
CancelTerminatesWitness ==
    \E r \in Req :
        /\ cancelled[r] /\ peer[r] = "open" /\ wpc[r] = "returned" /\ chClosed[r] = 1
        /\ sent[r] # <<>> /\ sent[r][Len(sent[r])].Error = "READ_ERROR"
        /\ sent[r][Len(sent[r])].late

\* C6: a body that ends with a clean end-of-input and no completion line is
\* completed: once everything the worker sent has been handled, Update has
\* received a Done for the request and the status is no longer StatusStreaming.
CleanEOFCompletes ==
    \A r \in Req :
        (Drained(r) /\ respStatus[r] = HttpStatusOK /\ ~HasTerminal(sent[r])) =>
            /\ HasDoneMsg(recv[r])
            /\ r = nreq => status # StatusStreaming

\* C8: a request the user cancelled is not rendered as a failure: the error
\* of the read its cancellation interrupts, once Update has handled it, leaves
\* the status other than StatusError and the error text unset.
CancelNeverShownAsError ==
    (lastEv.kind = "Err" /\ lastEv.late /\ lastEv.err = "READ_ERROR") =>
        (status # StatusError /\ errorMsg = "")

\* C9: when Update has handled the Done of a request the user cancelled (and no
\* later request was started), the last history message is the assistant
\* message holding the tokens received for that request.
CancelKeepsPartial ==
    (lastEv.kind = "Done" /\ lastEv.late /\ lastEv.req = nreq /\ Drained(nreq)
        /\ ReceivedText(nreq) # <<>>) =>
        LastMessage = [Role |-> RoleAssistant, Content |-> ReceivedText(nreq)]

\* C10: when Update has handled the Error of a request that was not cancelled,
\* the status is StatusError with an error text, and the tokens received for
\* the request are the content of the assistant message that ends the history.
FailureKeepsPartial ==
    (lastEv.kind = "Err" /\ ~cancelled[lastEv.req] /\ lastEv.req = nreq
        /\ ReceivedText(nreq) # <<>>) =>
        /\ status = StatusError /\ errorMsg # ""
        /\ LastMessage = [Role |-> RoleAssistant, Content |-> ReceivedText(nreq)]

\* C11: right after Update has handled a Token of the running request, the
\* last history message is an assistant message holding the tokens received
\* for the request so far.
TokenExtendsHistory ==
    (lastEv.kind = "Token" /\ lastEv.req = nreq /\ ~cancelled[nreq]
        /\ status = StatusStreaming) =>
        /\ LastMessage.Role = RoleAssistant
        /\ LastMessage.Content = ReceivedText(nreq)

\* A stream worker that has been started and has not returned.
Live(r) == wpc[r] \in {"start", "select", "read"}

\* C12: the only stream worker that is running with its context not cancelled
\* is the one of the latest request, whose cancel function Model.cancel holds.
OnlyLatestUncancelled ==
    \A r \in Req : (Live(r) /\ ~cancelled[r]) => r = nreq

\* The Error a response with status 401 and the body above is reported with.
IsApiError(e) == e = "API_ERROR status 401 body denied"

\* C13: for a response whose status is not 200 the channel carries exactly one
\* value, the Error with the status code and the body, and is closed; when
\* Update handles that Error the history is left as it is, the status becomes
\* StatusError and the error text is set.
ErrorStatusFails ==
    /\ [](\A r \in Req :
            (respStatus[r] = 401 /\ wpc[r] = "returned") =>
                /\ Len(sent[r]) = 1
                /\ IsApiError(sent[r][1].Error)
                /\ ~sent[r][1].Done /\ sent[r][1].Content = <<>>
                /\ chClosed[r] = 1)
    /\ [][\A msg \in inflight :
            (IsApiError(msg.Err) /\ inflight' = inflight \ {msg} /\ recv' # recv) =>
                /\ history' = history
                /\ status' = StatusError
                /\ errorMsg' = msg.Err
       ]_vars

\* C13 witness: Update has handled the Error of a 401 response, the only value
\* its request's channel carried.
ErrorStatusFailsWitness ==
    /\ lastEv.kind = "Err" /\ IsApiError(lastEv.err)
    /\ respStatus[lastEv.req] = 401 /\ Len(sent[lastEv.req]) = 1
    /\ chClosed[lastEv.req] = 1
    /\ status = StatusError /\ LastMessage.Role = RoleUser

HasDoneChunk(chunks) == \E i \in 1..Len(chunks) : chunks[i].Done

ErrorCount(chunks) == Cardinality({i \in 1..Len(chunks) : chunks[i].Error # ""})

\* C14 as stated: a Read that returns an error other than io.EOF makes
\* readStream send exactly one Error chunk, as its last send, and return.
ReadErrorFails ==
    (fOp = "readStream" /\ fArg.err = "err") =>
        /\ fRes.returns
        /\ ErrorCount(fRes.sends) = 1
        /\ Last(fRes.sends).Error = "READ_ERROR"

\* C14, amended: the same, unless the bytes returned with the error hold a
\* completion line; then the last send is that Done and no Error is sent.
ReadErrorFailsUnlessDone ==
    (fOp = "readStream" /\ fArg.err = "err") =>
        /\ fRes.returns
        /\ fRes.sends # <<>>
        /\ IF HasDoneChunk(parseStreamData(fArg.data))
           THEN Last(fRes.sends).Done /\ ErrorCount(fRes.sends) = 0
           ELSE Last(fRes.sends).Error = "READ_ERROR" /\ ErrorCount(fRes.sends) = 1

\* C14 witness: a Read returned a content line together with an error; the
\* pass sent the content and then the Error.
ReadErrorFailsWitness ==
    /\ fOp = "readStream" /\ fArg.err = "err" /\ fRes.returns
    /\ Len(fRes.sends) = 2
    /\ fRes.sends[1].Content # <<>> /\ fRes.sends[2].Error = "READ_ERROR"

\* The channel of request r carried n >= 1 content chunks and then Done.
TokensThenDone(r) ==
    /\ Len(sent[r]) >= 2
    /\ \A i \in 1..(Len(sent[r]) - 1) :
          sent[r][i].Content # <<>> /\ ~sent[r][i].Done /\ sent[r][i].Error = ""
    /\ Last(sent[r]).Done

\* C15: when the latest request got status 200 and its channel carried the
\* fragments c1..cn and Done, nobody cancelled, and Update has handled all of
\* it, then the history ends with the request's user message followed by one
\* assistant message with content c1+...+cn, and the status is StatusIdle.
StreamedAnswerCommitted ==
    \A r \in Req :
        (r = nreq /\ (\A q \in Req : ~cancelled[q]) /\ respStatus[r] = HttpStatusOK
            /\ TokensThenDone(r) /\ chClosed[r] = 1 /\ Drained(r)) =>
            LET n == Len(history.messages)
            IN  /\ status = StatusIdle
                /\ n >= 2
                /\ history.messages[n] =
                      [Role |-> RoleAssistant, Content |-> ConcatContent(sent[r])]
                /\ history.messages[n - 1].Role = RoleUser

\* The whole stream was handed to parseStreamData in one call.
ParsedWhole == pCalls = 1 /\ pRest = <<>>

\* A line whose payload is exactly [DONE].
IsDoneLine(l) == l = <<"data:", "SP", "[DO", "NE]">>

\* The lines of the stream, and the first [DONE] line among them (0: none).
WholeLines == SplitLines(pWhole, <<>>)

FirstDoneLine ==
    IF \E i \in 1..Len(WholeLines) : IsDoneLine(WholeLines[i])
    THEN CHOOSE i \in 1..Len(WholeLines) :
            /\ IsDoneLine(WholeLines[i])
            /\ \A j \in 1..(i - 1) : ~IsDoneLine(WholeLines[j])
    ELSE 0

\* C16: for a buffer with a [DONE] line, parseStreamData returns the frames of
\* the lines before the first such line, then one Done frame, and nothing
\* for the lines after it.
StopsAtDoneLine ==
    (ParsedWhole /\ FirstDoneLine > 0) =>
        pLast = ParseLines(SubSeq(WholeLines, 1, FirstDoneLine - 1)) \o <<DoneChunk>>

\* C16 witness: a buffer with a [DONE] line followed by a content line was
\* parsed to the single Done frame.
StopsAtDoneLineWitness ==
    /\ ParsedWhole /\ FirstDoneLine = 1
    /\ Len(WholeLines) >= 2 /\ ParseLine(WholeLines[2]).chunks # <<>>
    /\ pLast = <<DoneChunk>>

\* The finish_reason a body carries is a non-empty string other than "null";
\* the body carries non-empty content.
SaysFinished(body) == LastField(body, FinishSyms) = "f:stop"

CarriesContent(body) ==
    \/ LastField(body, DeltaSyms) \in {"d:a", "d:b"}
    \/ LastField(body, MessageSyms) = "m:A"

\* C17: a data line yields a Done frame exactly when its finish_reason is a
\* non-empty string other than "null" (absent, JSON null, "" and "null" do
\* not); with content it then yields the content frame followed by Done, and
\* without content the Done frame alone.
DoneIffFinished ==
    fOp = "parseStreamData" =>
        /\ HasDoneChunk(fRes) <=> SaysFinished(fArg)
        /\ (SaysFinished(fArg) /\ CarriesContent(fArg)) =>
              /\ Len(fRes) = 2
              /\ fRes[1].Content # <<>> /\ ~fRes[1].Done /\ fRes[1].Error = ""
              /\ fRes[2] = DoneChunk
        /\ (SaysFinished(fArg) /\ ~CarriesContent(fArg)) => fRes = <<DoneChunk>>

\* C17 witness: the line with content b and finish_reason stop gave the two
\* frames b, Done.
DoneIffFinishedWitness ==
    /\ fOp = "parseStreamData"
    /\ fArg = <<"d:b", "f:stop">>
    /\ fRes = <<ContentChunk(<<"b">>), DoneChunk>>

\* A data line whose payload is not valid JSON.
IsMalformedLine(l) == l = <<"data:", "SP", "{", "junk">>

WellFormedLines == SelectSeq(WholeLines, LAMBDA l : ~IsMalformedLine(l))

\* C18: a data line with a malformed payload contributes no frame and no
\* error and does not stop the parsing: the buffer yields the frames it yields
\* without its malformed lines, and no call ever returns an Error frame.
MalformedLineSkipped ==
    /\ ErrorCount(pFrames) = 0
    /\ ParsedWhole => pLast = ParseLines(WellFormedLines)

\* C18 witness: a malformed line followed by a content line was parsed to the
\* content frame of the second line.
MalformedLineSkippedWitness ==
    /\ ParsedWhole
    /\ Len(WholeLines) >= 2
    /\ IsMalformedLine(WholeLines[1])
    /\ pLast = <<ContentChunk(<<"a">>)>>

\* The history before the last call, and its messages before and after.
Before == fArg.h.messages
After == history.messages

UpdateApplies == Len(Before) > 0 /\ Last(Before).Role = RoleAssistant

\* C19: UpdateLastAssistant(text) returns false and leaves the history as it
\* was when the history is empty or does not end with an assistant message;
\* otherwise it returns true and changes nothing but the content of the last
\* message, which becomes text.
UpdateLastAssistantContract ==
    fOp = "UpdateLastAssistant" =>
        IF UpdateApplies
        THEN /\ fRes = TRUE
             /\ Len(After) = Len(Before)
             /\ \A i \in 1..Len(Before) : After[i].Role = Before[i].Role
             /\ \A i \in 1..(Len(Before) - 1) : After[i] = Before[i]
             /\ Last(After).Content = fArg.arg
             /\ history.systemPrompt = fArg.h.systemPrompt
        ELSE fRes = FALSE /\ history = fArg.h

\* C19 witness: an update replaced the content x of the assistant message
\* that ends a history of three messages by y.
UpdateLastAssistantContractWitness ==
    /\ fOp = "UpdateLastAssistant"
    /\ Len(Before) = 3
    /\ Last(Before) = [Role |-> RoleAssistant, Content |-> <<"x">>]
    /\ fArg.arg = <<"y">>
    /\ Last(After).Content = <<"y">>

\* C20: RemoveLast never removes the system message: it returns false and
\* leaves the messages as they were on an empty history and on a history
\* holding only the system message, it returns true on [system, user] and
\* leaves [system], and a system message at index 0 before the call is the
\* same message at index 0 after it.
RemoveLastKeepsSystem ==
    fOp = "RemoveLast" =>
        /\ Len(Before) = 0 => fRes = FALSE /\ After = Before
        /\ (Len(Before) = 1 /\ Before[1].Role = RoleSystem) =>
               fRes = FALSE /\ After = Before
        /\ (Len(Before) = 2 /\ Before[1].Role = RoleSystem
                             /\ Before[2].Role = RoleUser) =>
               fRes = TRUE /\ After = <<Before[1]>>
        /\ (Len(Before) > 0 /\ Before[1].Role = RoleSystem) =>
               Len(After) > 0 /\ After[1] = Before[1]

\* C20 witness: RemoveLast was called on a history holding only its system
\* message.
RemoveLastKeepsSystemWitness ==
    /\ fOp = "RemoveLast"
    /\ Before = <<[Role |-> RoleSystem, Content |-> <<"S">>]>>
    /\ fRes = FALSE
    /\ After = Before

\* The history is empty or its only message is the system message.
NothingToRemove ==
    \/ Len(Before) = 0
    \/ Len(Before) = 1 /\ Before[1].Role = RoleSystem

\* C21: RemoveLast removes the last message and returns true unless the
\* history is empty or its only message is the system message, and it returns
\* true exactly when the length went down by one.
RemoveLastUnlessSoleSystem ==
    fOp = "RemoveLast" =>
        /\ fRes = (~NothingToRemove)
        /\ fRes = (Len(After) = Len(Before) - 1)
        /\ fRes => After = Front(Before)
        /\ ~fRes => After = Before

SystemIndexes(msgs) == {i \in 1..Len(msgs) : msgs[i].Role = RoleSystem}

\* C22: in every state reachable through NewChatHistory, AddUser,
\* AddAssistant, UpdateLastAssistant, SetSystemPrompt, Clear and RemoveLast the
\* history holds at most one system message, and one it holds is the first
\* message.
SystemOnlyInFront == SystemIndexes(history.messages) \subseteq {1}

\* C22 witness: SetSystemPrompt put a system message in front of a history
\* that began with a user message and had none.
SystemOnlyInFrontWitness ==
    /\ fOp = "SetSystemPrompt"
    /\ Len(Before) = 2
    /\ SystemIndexes(Before) = {}
    /\ SystemIndexes(After) = {1}
    /\ SubSeq(After, 2, 3) = Before

\* C23: GetMessages returns an independent copy: a write into an element of
\* the returned slice leaves the history as it was, and whatever is called on
\* the history afterwards, the caller reads in the slice what it last saw or
\* wrote there.
SnapshotIndependent ==
    /\ fOp = "WriteSnapshot" => history = fArg.h
    /\ snap # NoSlice => Elems(snap, history) = snapAt

\* C23 witness: a slice of two messages was returned, the caller wrote into
\* its first element, and the history was then changed by UpdateLastAssistant.
SnapshotIndependentWitness ==
    /\ fOp = "UpdateLastAssistant"
    /\ fRes = TRUE
    /\ Len(snapAt) = 2
    /\ snapAt[1].Content = Modified
    /\ snapAt[2].Role = RoleAssistant
    /\ Len(history.messages) = 2
    /\ history.messages[1].Content # Modified
    /\ history.messages[2].Content # snapAt[2].Content

IsPrefix(a, b) == Len(a) <= Len(b) /\ SubSeq(b, 1, Len(a)) = a

\* What the call goroutine g has just returned from has returned.
Returned(g, op) == procs[g].pc = "idle" /\ procs[g].last = op

\* C24: under any interleaving of writers and readers, what GetMessages and
\* GetDisplayMessages return is the content of the history at one instant
\* between the call and the return (the instant the read lock was taken), and
\* as long as no message was updated the result of a goroutine's GetMessages
\* extends the result of its GetMessages before.
ReadsAreSnapshots ==
    \A g \in G :
        /\ Returned(g, "GetMessages") => procs[g].res = procs[g].at
        /\ Returned(g, "GetDisplayMessages") => procs[g].res = DisplayOf(procs[g].at)
        /\ (procs[g].gets = 2 /\ ~updated) => IsPrefix(procs[g].prev, procs[g].cur)

\* C24 witness: a goroutine's second GetMessages returned a longer history
\* than its first, while the other goroutine had an append under way.
ReadsAreSnapshotsWitness ==
    \E g \in G :
        /\ Returned(g, "GetMessages")
        /\ procs[g].gets = 2
        /\ Len(procs[g].prev) < Len(procs[g].cur)
        /\ \E o \in G \ {g} : procs[o].pc = "lock" /\ procs[o].op = "AddAssistant"

AllReturned == \A g \in G : procs[g].pc = "idle"

Occurrences(msgs, m) == Cardinality({i \in 1..Len(msgs) : msgs[i] = m})

InitialLen == IF history.systemPrompt = <<>> THEN 0 ELSE 1

AppendsAllPresent ==
    AllReturned =>
        /\ Len(history.messages) = InitialLen + Cardinality(appended)
        /\ ~updated => \A m \in appended : Occurrences(history.messages, m) = 1

CallReturns(g) == (procs[g].pc # "idle") ~> (procs[g].pc = "idle")

\* C25: no append is lost under concurrency: every call a goroutine has
\* started returns, and once all calls have returned the history is as long as
\* at the start plus one message per AddUser and AddAssistant call, each of
\* these messages being there exactly once as long as none was updated.
NoAppendLost == []AppendsAllPresent /\ \A g \in G : CallReturns(g)

\* C25 witness: both goroutines have called AddUser and AddAssistant and all
\* four calls have returned.
NoAppendLostWitness ==
    /\ AllReturned
    /\ \A g \in G : procs[g].left = 0
    /\ Cardinality(appended) = 2 * NumG
    /\ Cardinality({m \in appended : m.Role = RoleUser}) = NumG
    /\ Len(history.messages) = InitialLen + 2 * NumG

\* The indexes of the messages that are not system messages, and the place
\* of such an index among them.
Shown(msgs) == {i \in 1..Len(msgs) : msgs[i].Role # RoleSystem}
Rank(msgs, i) == Cardinality({j \in Shown(msgs) : j <= i})

\* C26: GetDisplayMessages returns exactly the messages of the history that
\* are not system messages, in the same order and with the same contents, and
\* leaves the history as it was.
DisplayIsNonSystem ==
    fOp = "GetDisplayMessages" =>
        /\ history = fArg.h
        /\ Len(fRes) = Cardinality(Shown(Before))
        /\ \A i \in Shown(Before) : fRes[Rank(Before, i)] = Before[i]

\* C26 witness: the display of [system, user, assistant] is [user,
\* assistant].
DisplayIsNonSystemWitness ==
    /\ fOp = "GetDisplayMessages"
    /\ Len(Before) = 3
    /\ Before[1].Role = RoleSystem
    /\ Before[2].Role = RoleUser
    /\ Before[3].Role = RoleAssistant
    /\ fRes = <<Before[2], Before[3]>>

\* C27: from any state Clear(p) leaves the history [system: p] when p is not
\* empty and empty when it is, and GetSystemPrompt returns p afterwards.
ClearResets ==
    fOp = "Clear" =>
        /\ After = IF fArg.arg # <<>>
                   THEN <<[Role |-> RoleSystem, Content |-> fArg.arg]>>
                   ELSE <<>>
        /\ GetSystemPrompt(history) = fArg.arg

\* C27 witness: Clear("T") on a history of three messages under the prompt S.
ClearResetsWitness ==
    /\ fOp = "Clear"
    /\ Len(Before) = 3
    /\ Before[1] = [Role |-> RoleSystem, Content |-> <<"S">>]
    /\ fArg.arg = <<"T">>
    /\ After = <<[Role |-> RoleSystem, Content |-> <<"T">>]>>

\* C28: a request is only ever started from StatusIdle.
StartsFromIdle == [][nreq' # nreq => status = StatusIdle]_vars

\* The non-empty delta content and the non-empty message content of a body.
HasDelta(body) == LastField(body, DeltaSyms) \in {"d:a", "d:b"}
HasMessage(body) == LastField(body, MessageSyms) = "m:A"

\* C29: an envelope with content in the delta field yields that content and
\* not the content of its message field; the message content is yielded only
\* when the delta content is empty.
DeltaPreferred ==
    fOp = "parseStreamData" =>
        /\ HasDelta(fArg) =>
               ConcatContent(fRes) = DeltaText(LastField(fArg, DeltaSyms))
        /\ (~HasDelta(fArg) /\ HasMessage(fArg)) => ConcatContent(fRes) = <<"A">>
        /\ (~HasDelta(fArg) /\ ~HasMessage(fArg)) => ConcatContent(fRes) = <<>>

\* C29 witness: the envelope with message content A and delta content a gave
\* the one frame a.
DeltaPreferredWitness ==
    /\ fOp = "parseStreamData"
    /\ fArg = <<"m:A", "d:a">>
    /\ fRes = <<ContentChunk(<<"a">>)>>

\* C30: the history never holds an assistant message with empty content,
\* whatever the order of tokens, Done, cancellations and failures.
NoEmptyAssistant ==
    \A i \in 1..Len(history.messages) :
        history.messages[i].Role = RoleAssistant =>
            history.messages[i].Content # <<>>

HadSystemInFront == Len(Before) > 0 /\ Before[1].Role = RoleSystem

\* C31: SetSystemPrompt(p) with p not empty leaves a system message with
\* content p at index 0 and p as the stored prompt; a system message already
\* in front is updated in place, otherwise one is inserted in front, and the
\* other messages keep their order and contents.
SetSystemPromptInFront ==
    (fOp = "SetSystemPrompt" /\ fArg.arg # <<>>) =>
        /\ Len(After) > 0
        /\ After[1] = [Role |-> RoleSystem, Content |-> fArg.arg]
        /\ GetSystemPrompt(history) = fArg.arg
        /\ IF HadSystemInFront
           THEN Len(After) = Len(Before) /\ Tail(After) = Tail(Before)
           ELSE Tail(After) = Before

\* C31 witness: the system message S in front of a user message became T in
\* place.
SetSystemPromptInFrontWitness ==
    /\ fOp = "SetSystemPrompt"
    /\ fArg.arg = <<"T">>
    /\ Len(Before) = 2
    /\ Before[1] = [Role |-> RoleSystem, Content |-> <<"S">>]
    /\ Before[2].Role = RoleUser
    /\ After = <<[Role |-> RoleSystem, Content |-> <<"T">>], Before[2]>>

AddedRole == IF fOp = "AddUser" THEN RoleUser ELSE RoleAssistant

\* C32: AddUser and AddAssistant append exactly one message with the given
\* role and content at the end: the length grows by one and the messages that
\* were there keep their position, role and content.
AddAppendsOne ==
    fOp \in {"AddUser", "AddAssistant"} =>
        /\ Len(After) = Len(Before) + 1
        /\ \A i \in 1..Len(Before) : After[i] = Before[i]
        /\ Last(After) = [Role |-> AddedRole, Content |-> fArg.arg]
        /\ GetSystemPrompt(history) = GetSystemPrompt(fArg.h)

\* C32 witness: AddUser("y") on [system S, assistant x].
AddAppendsOneWitness ==
    /\ fOp = "AddUser"
    /\ fArg.arg = <<"y">>
    /\ Before = <<[Role |-> RoleSystem, Content |-> <<"S">>],
                  [Role |-> RoleAssistant, Content |-> <<"x">>]>>
    /\ After = Append(Before, [Role |-> RoleUser, Content |-> <<"y">>])

\* The empty line, the comment line and the line that does not begin with
\* "data: ".
IsIgnoredLine(l) ==
    l \in {<<>>, <<":", "junk">>, <<"junk", "data:", "SP", "[DO", "NE]">>}

DataLines == SelectSeq(WholeLines, LAMBDA l : ~IsIgnoredLine(l))

\* C33: empty lines, lines starting with ':' and lines not starting with
\* "data: " produce no frame and do not change the frames of the other lines:
\* a buffer yields the frames it yields without these lines, and nothing when
\* it holds no other line.
IgnoredLinesSkipped ==
    ParsedWhole =>
        /\ pLast = ParseLines(DataLines)
        /\ DataLines = <<>> => pLast = <<>>

\* C33 witness: a line with [DONE] behind other text, then a content line,
\* parsed to the content frame alone.
IgnoredLinesSkippedWitness ==
    /\ ParsedWhole
    /\ Len(WholeLines) >= 2
    /\ WholeLines[1] = <<"junk", "data:", "SP", "[DO", "NE]">>
    /\ pLast = <<ContentChunk(<<"a">>)>>

\* C34: the assistant message appended when Update handles the Done of the
\* running request holds exactly the tokens of that request, also when an
\* earlier request has failed (stated for sessions in which nothing was
\* cancelled).
AnswerOnlyOwnTokens ==
    (lastEv.kind = "Done" /\ lastEv.req = nreq /\ \A q \in Req : ~cancelled[q]) =>
        LastMessage = [Role |-> RoleAssistant, Content |-> ReceivedText(nreq)]

\* Update handles, in this step, a message of the cancelled request q while a
\* later request is streaming.
HandlesLateEvent(q) ==
    /\ q < nreq
    /\ cancelled[q]
    /\ status = StatusStreaming
    /\ recv'[q] # recv[q]

\* C35: a Token, Done or Error of a cancelled request that Update handles while
\* a later request is streaming changes neither the status, the streaming
\* buffer nor the history, and starts no further readStreamMsg command on the
\* streamMsgChan of the later request.
LateEventsIgnored ==
    [][(\E q \in Req : HandlesLateEvent(q)) =>
           /\ status' = status
           /\ streamingBuf' = streamingBuf
           /\ history' = history
           /\ readers' = readers]_vars

\* C36: while the status is StatusStreaming the input line is empty, and no
\* step starts a request (sendMessage) from a state whose status is
\* StatusStreaming.
InputEmptyWhileStreaming ==
    /\ [](status = StatusStreaming => input = <<>>)
    /\ [][nreq' # nreq => status # StatusStreaming]_vars

\* A second request is streaming and has delivered a token; the input is empty.
InputEmptyWhileStreamingWitness ==
    /\ status = StatusStreaming
    /\ nreq = 2
    /\ lastEv.kind = "Token"
    /\ lastEv.req = 2
    /\ input = <<>>

\* The step is a ctrl+c or ctrl+d key press: the only steps that signal a
\* cancel function or quit the program.
StopKeyStep == cancelled' # cancelled \/ quit' # quit

\* C37: ctrl+c (or ctrl+d) while the status is StatusStreaming signals the
\* cancel function of the current request, sets the status to StatusIdle,
\* does not quit and leaves the history as it is; in any other status it quits
\* and signals no cancellation.
CtrlCContract ==
    [][StopKeyStep =>
           IF status = StatusStreaming
           THEN /\ cancelled' = [cancelled EXCEPT ![nreq] = TRUE]
                /\ ~cancelled[nreq]
                /\ status' = StatusIdle
                /\ quit' = quit
                /\ history' = history
           ELSE /\ quit'
                /\ cancelled' = cancelled]_vars

\* The second request was cancelled by ctrl+c while it was streaming after a
\* token of it had been shown, and the program runs on.
CtrlCContractWitness ==
    /\ nreq = 2
    /\ cancelled[2]
    /\ ~quit
    /\ lastEv.kind = "Token"
    /\ lastEv.req = 2
    /\ status = StatusIdle

\* C38: the history of the session never holds two assistant messages next to
\* each other.
NoConsecutiveAssistant ==
    \A i \in 1..(Len(history.messages) - 1) :
        ~(/\ history.messages[i].Role = RoleAssistant
          /\ history.messages[i + 1].Role = RoleAssistant)

\* The index of the first Done frame of chunks, 0 when there is none.
FirstDone(chunks) ==
    IF HasDoneChunk(chunks)
    THEN CHOOSE i \in 1..Len(chunks) :
             chunks[i].Done /\ \A j \in 1..(i - 1) : ~chunks[j].Done
    ELSE 0

====
